---- MODULE Spec2Model ----
(***************************************************************************)
(* Model of triad-counter-rs: the TriadCounts accumulator, the sign        *)
(* matrix, the sequential and the rayon fold/reduce triad counters, and    *)
(* the TriadCounterPlugin lifecycle (new, from_matrix, input, run).        *)
(*                                                                         *)
(* Vec<T> is a function on 0..len-1, so the flat index i*n+j of the source *)
(* is kept as written.  f64 weights are drawn from the sample set Weights; *)
(* u64 buckets are plain integers (every count here is far below 2^64).    *)
(* A Rust panic (index out of bounds) is the outcome "panic".              *)
(***************************************************************************)
EXTENDS Integers, Sequences, FiniteSets, TLC

VARIABLES n, adj, signs, labels, counts,   \* the fields of TriadCounterPlugin
          lastOp,    \* the last operation called
          outcome,   \* how it ended: "ok", "err" (an Err value) or "panic"
          ret,       \* the TriadCounts it returned (Default when it returns none)
          prev,      \* counts() before it
          clean,     \* no input has failed part-way since the last successful load
          ma, mb, mc, mres   \* operands and results of merge

engine == <<n, adj, signs, labels, counts>>
ghost == <<lastOp, outcome, ret, prev, clean>>
mergeVars == <<ma, mb, mc, mres>>
vars == <<n, adj, signs, labels, counts, lastOp, outcome, ret, prev, clean,
          ma, mb, mc, mres>>

(* ---------------------------- bounds ----------------------------------- *)

\* largest network the counters are run on
MaxN == 4

\* number of cells above the diagonal that range over every weight
MaxFree == 6

\* largest network the lifecycle loads
MaxLoadN == 3

\* largest bucket value merged
MaxCount == 1

(* --------------------------- constants --------------------------------- *)

PARALLEL_THRESHOLD == 500

NegW == -2

PosW == 3

Weights == {NegW, 0, PosW}

(* ------------------------------ Vec ------------------------------------ *)

VLen(v) == Cardinality(DOMAIN v)

InBounds(v, idx) == idx \in DOMAIN v

EmptyVec == [x \in {} |-> 0]

Zeros(len) == [x \in 0..(len - 1) |-> 0]

(* --------------------------- TriadCounts ------------------------------- *)

Default ==
  [three_positive |-> 0, two_positive |-> 0, one_positive |-> 0, zero_positive |-> 0]

stable(c) == c.three_positive + c.one_positive

unstable(c) == c.two_positive + c.zero_positive

total(c) == c.three_positive + c.two_positive + c.one_positive + c.zero_positive

merge_dropping_bucket(self, other) ==
  [three_positive |-> self.three_positive + other.three_positive,
   two_positive   |-> self.two_positive + other.two_positive,
   one_positive   |-> self.one_positive + other.one_positive,
   zero_positive  |-> self.zero_positive]

merge(self, other) ==
  [three_positive |-> self.three_positive + other.three_positive,
   two_positive   |-> self.two_positive + other.two_positive,
   one_positive   |-> self.one_positive + other.one_positive,
   zero_positive  |-> self.zero_positive + other.zero_positive]

(* ---------------------------- sign matrix ------------------------------ *)

to_sign(v) == IF v > 0 THEN 1 ELSE IF v < 0 THEN -1 ELSE 0

compute_signs(a) == [x \in DOMAIN a |-> to_sign(a[x])]

(* ----------------------- outcomes of a call ---------------------------- *)

Ok(c) == [ok |-> TRUE, c |-> c]

Panic == [ok |-> FALSE, c |-> Default]

(* ------------------- per-triple classification ------------------------- *)

B2N(b) == IF b THEN 1 ELSE 0

PosCount(ij, ik, jk) == B2N(ij > 0) + B2N(ik > 0) + B2N(jk > 0)

Classify_dropping(c, pos_count) ==
  IF pos_count = 3 THEN [c EXCEPT !.three_positive = @ + 1]
  ELSE IF pos_count = 2 THEN [c EXCEPT !.two_positive = @ + 1]
  ELSE IF pos_count = 1 THEN [c EXCEPT !.one_positive = @ + 1]
  ELSE c

Classify_swapped(c, pos_count) ==
  IF pos_count = 3 THEN [c EXCEPT !.three_positive = @ + 1]
  ELSE IF pos_count = 2 THEN [c EXCEPT !.one_positive = @ + 1]
  ELSE IF pos_count = 1 THEN [c EXCEPT !.two_positive = @ + 1]
  ELSE IF pos_count = 0 THEN [c EXCEPT !.zero_positive = @ + 1]
  ELSE c

Classify(c, pos_count) ==
  IF pos_count = 3 THEN [c EXCEPT !.three_positive = @ + 1]
  ELSE IF pos_count = 2 THEN [c EXCEPT !.two_positive = @ + 1]
  ELSE IF pos_count = 1 THEN [c EXCEPT !.one_positive = @ + 1]
  ELSE IF pos_count = 0 THEN [c EXCEPT !.zero_positive = @ + 1]
  ELSE c

(* ------------------------ sequential counter --------------------------- *)

RECURSIVE SeqK(_, _, _, _, _, _, _)
SeqK(sg, nn, i, j, ij, k, c) ==
  IF k >= nn THEN Ok(c)
  ELSE IF ~InBounds(sg, i * nn + k) \/ ~InBounds(sg, j * nn + k) THEN Panic
  ELSE LET ik == sg[i * nn + k]
           jk == sg[j * nn + k]
       IN IF ik = 0 \/ jk = 0
          THEN SeqK(sg, nn, i, j, ij, k + 1, c)
          ELSE SeqK(sg, nn, i, j, ij, k + 1, Classify(c, PosCount(ij, ik, jk)))

SeqSkip_never(ij) == FALSE

SeqSkip(ij) == ij = 0

RECURSIVE SeqJ(_, _, _, _, _)
SeqJ(sg, nn, i, j, c) ==
  IF j >= nn THEN Ok(c)
  ELSE IF ~InBounds(sg, i * nn + j) THEN Panic
  ELSE LET ij == sg[i * nn + j]
       IN IF SeqSkip(ij)
          THEN SeqJ(sg, nn, i, j + 1, c)
          ELSE LET r == SeqK(sg, nn, i, j, ij, j + 1, c)
               IN IF r.ok THEN SeqJ(sg, nn, i, j + 1, r.c) ELSE Panic

RECURSIVE SeqI(_, _, _, _)
SeqI(sg, nn, i, c) ==
  IF i >= nn THEN Ok(c)
  ELSE LET r == SeqJ(sg, nn, i, i + 1, c)
       IN IF r.ok THEN SeqI(sg, nn, i + 1, r.c) ELSE Panic

count_triads_sequential(sg, nn) == SeqI(sg, nn, 0, Default)

(* ---------------------- parallel chunked counter ----------------------- *)
(* rayon runs (0..n).into_par_iter().fold(..).reduce(..) as a binary tree  *)
(* of splits of the index range: a leaf folds its sub-range in order from  *)
(* identity() and hands the accumulator to reduce, an inner node splits    *)
(* the range and reduces the left result with the right one.  A tree is    *)
(* <<>> (a leaf) or <<m, left, right>> (the first m indices go left).      *)

RECURSIVE Trees(_)
Trees(len) ==
  {<<>>} \cup
  UNION {{<<m, l, r>> : l \in Trees(m), r \in Trees(len - m)} : m \in 1..(len - 1)}

RECURSIVE ParK(_, _, _, _, _, _, _)
ParK(sg, nn, i, j, ij, k, c) ==
  IF k >= nn THEN Ok(c)
  ELSE IF ~InBounds(sg, i * nn + k) \/ ~InBounds(sg, j * nn + k) THEN Panic
  ELSE LET ik == sg[i * nn + k]
           jk == sg[j * nn + k]
       IN IF ik = 0 \/ jk = 0
          THEN ParK(sg, nn, i, j, ij, k + 1, c)
          ELSE ParK(sg, nn, i, j, ij, k + 1, Classify(c, PosCount(ij, ik, jk)))

RECURSIVE ParJ(_, _, _, _, _)
ParJ(sg, nn, i, j, c) ==
  IF j >= nn THEN Ok(c)
  ELSE IF ~InBounds(sg, i * nn + j) THEN Panic
  ELSE LET ij == sg[i * nn + j]
       IN IF ij = 0
          THEN ParJ(sg, nn, i, j + 1, c)
          ELSE LET r == ParK(sg, nn, i, j, ij, j + 1, c)
               IN IF r.ok THEN ParJ(sg, nn, i, j + 1, r.c) ELSE Panic

\* the fold closure: one outer index i added to the worker's accumulator
FoldStep(sg, nn, c, i) == ParJ(sg, nn, i, i + 1, c)

RECURSIVE FoldRange(_, _, _, _, _)
FoldRange(sg, nn, lo, hi, c) ==
  IF lo >= hi THEN Ok(c)
  ELSE LET r == FoldStep(sg, nn, c, lo)
       IN IF r.ok THEN FoldRange(sg, nn, lo + 1, hi, r.c) ELSE Panic

reduce_op_keep_left(a, b) == a

reduce_op(a, b) == merge(a, b)

RECURSIVE ParEval(_, _, _, _, _)
ParEval(sg, nn, lo, hi, tree) ==
  IF tree = <<>>
  THEN LET f == FoldRange(sg, nn, lo, hi, Default)
       IN IF f.ok THEN Ok(reduce_op(Default, f.c)) ELSE Panic
  ELSE LET l == ParEval(sg, nn, lo, lo + tree[1], tree[2])
           r == ParEval(sg, nn, lo + tree[1], hi, tree[3])
       IN IF l.ok /\ r.ok THEN Ok(reduce_op(l.c, r.c)) ELSE Panic

count_triads_parallel_chunked(sg, nn, tree) == ParEval(sg, nn, 0, nn, tree)

(* -------------------------- strategy selector -------------------------- *)

count_triads_optimized(sg, nn, tree) ==
  IF nn >= PARALLEL_THRESHOLD
  THEN count_triads_parallel_chunked(sg, nn, tree)
  ELSE count_triads_sequential(sg, nn)

\* main.rs: the number of possible triads C(n, 3)
count_triads(nn) == IF nn < 3 THEN 0 ELSE (nn * (nn - 1) * (nn - 2)) \div 6

(* ------------------------------ loading -------------------------------- *)

\* the label format!("Node{}", i)
NodeLabel(i) == <<"Node", i>>

\* iter().skip(1)
Skip1(s) == IF Len(s) = 0 THEN <<>> ELSE Tail(s)

\* field.trim().parse::<f64>().unwrap_or(0.0)
ParseOr0(field) == IF field.num THEN field.val ELSE 0

\* from_matrix: the cells of row i, written at i*n+j unless on the diagonal
RECURSIVE FMCols(_, _, _, _, _)
FMCols(row, nn, i, j, a) ==
  IF j >= Len(row) THEN [ok |-> TRUE, adj |-> a]
  ELSE IF i # j
       THEN IF InBounds(a, i * nn + j)
            THEN FMCols(row, nn, i, j + 1, [a EXCEPT ![i * nn + j] = row[j + 1]])
            ELSE [ok |-> FALSE, adj |-> a]
       ELSE FMCols(row, nn, i, j + 1, a)

RECURSIVE FMRows(_, _, _, _)
FMRows(matrix, nn, i, a) ==
  IF i >= Len(matrix) THEN [ok |-> TRUE, adj |-> a]
  ELSE LET r == FMCols(matrix[i + 1], nn, i, 0, a)
       IN IF r.ok THEN FMRows(matrix, nn, i + 1, r.adj) ELSE r

from_matrix(matrix) ==
  LET nn == Len(matrix)
      w == FMRows(matrix, nn, 0, Zeros(nn * nn))
  IN [ok |-> w.ok,
      n |-> nn,
      adj |-> w.adj,
      signs |-> compute_signs(w.adj),
      labels |-> [k \in 1..nn |-> NodeLabel(k - 1)],
      counts |-> Default]

\* input: the fields of one record after the row label, written at
\* row_idx*n+col_idx while col_idx < n
RECURSIVE InCols(_, _, _, _, _)
InCols(fields, nn, row_idx, col_idx, a) ==
  IF col_idx >= Len(fields) THEN [status |-> "ok", adj |-> a]
  ELSE IF col_idx < nn
       THEN IF InBounds(a, row_idx * nn + col_idx)
            THEN InCols(fields, nn, row_idx, col_idx + 1,
                        [a EXCEPT ![row_idx * nn + col_idx] = ParseOr0(fields[col_idx + 1])])
            ELSE [status |-> "panic", adj |-> a]
       ELSE InCols(fields, nn, row_idx, col_idx + 1, a)

RECURSIVE InRows(_, _, _, _)
InRows(rows, nn, row_idx, a) ==
  IF row_idx >= Len(rows) THEN [status |-> "ok", adj |-> a]
  ELSE IF ~rows[row_idx + 1].ok THEN [status |-> "err", adj |-> a]
  ELSE LET r == InCols(Skip1(rows[row_idx + 1].fields), nn, row_idx, 0, a)
       IN IF r.status = "ok" THEN InRows(rows, nn, row_idx + 1, r.adj) ELSE r

ZeroDiagonal(a, nn) ==
  [x \in DOMAIN a |-> IF \E i \in 0..(nn - 1) : x = i * nn + i THEN 0 ELSE a[x]]

\* input(&mut self, path): a table is what the csv reader yields for the file:
\* whether the file opens, whether the header record reads, the header fields
\* and the data records (each an error or its fields).
input(self, table) ==
  IF ~table.open \/ ~table.hdrOk
  THEN [status |-> "err", touched |-> FALSE, n |-> self.n, adj |-> self.adj,
        signs |-> self.signs, labels |-> self.labels]
  ELSE LET lbls == Skip1(table.header)
           nn == Len(lbls)
           w == InRows(table.rows, nn, 0, Zeros(nn * nn))
       IN IF w.status = "ok"
          THEN LET a == ZeroDiagonal(w.adj, nn)
               IN [status |-> "ok", touched |-> TRUE, n |-> nn, adj |-> a,
                   signs |-> compute_signs(a), labels |-> lbls]
          ELSE [status |-> w.status, touched |-> TRUE, n |-> nn, adj |-> w.adj,
                signs |-> self.signs, labels |-> lbls]

(* --------------------------- sample inputs ----------------------------- *)

Num(v) == [num |-> TRUE, val |-> v]

Text == [num |-> FALSE, val |-> 0]

Fills == {"mod3", "skew"}

\* the cell at data row r, column c of a sample table: "mod3" is the complete
\* symmetric network of the repository's test, "skew" an asymmetric one whose
\* diagonal is no number and whose lower triangle has absent edges
SampleCell(fill, r, c) ==
  IF fill = "mod3" THEN Num(IF (r + c) % 3 = 0 THEN NegW ELSE PosW)
  ELSE IF r < c THEN Num(NegW)
       ELSE IF r = c THEN Text
            ELSE IF (r + c) % 2 = 1 THEN Num(0) ELSE Num(PosW)

SampleMatrix(nn, fill) ==
  [i \in 1..nn |-> [j \in 1..nn |-> ParseOr0(SampleCell(fill, i - 1, j - 1))]]

SampleMatrices == {SampleMatrix(nn, fill) : nn \in 0..MaxLoadN, fill \in Fills}

\* errRow = 0: every record reads; errRow = r: record r is an error
SampleTable(nn, nrows, width, fill, errRow) ==
  [open |-> TRUE, hdrOk |-> TRUE,
   header |-> [k \in 1..(nn + 1) |-> NodeLabel(k - 2)],
   rows |-> [r \in 1..nrows |->
              [ok |-> r # errRow,
               fields |-> [k \in 1..(width + 1) |->
                            IF k = 1 THEN Text ELSE SampleCell(fill, r - 1, k - 2)]]]]

EmptyFile == [open |-> TRUE, hdrOk |-> TRUE, header |-> <<>>, rows |-> <<>>]

MissingFile == [open |-> FALSE, hdrOk |-> FALSE, header |-> <<>>, rows |-> <<>>]

BadHeader == [open |-> TRUE, hdrOk |-> FALSE, header |-> <<>>, rows |-> <<>>]

\* the shapes of a table with nn labels: <<data rows, cells per row, errRow>>
Shapes(nn) ==
  {<<nn, nn, 0>>, <<nn + 1, nn, 0>>, <<nn, nn + 1, 0>>, <<nn, nn, 1>>} \cup
  (IF nn > 0 THEN {<<nn - 1, nn, 0>>, <<nn, nn - 1, 0>>, <<nn, nn, nn>>} ELSE {})

SampleTables ==
  {EmptyFile, MissingFile, BadHeader} \cup
  UNION {{SampleTable(nn, sh[1], sh[2], fill, sh[3]) : sh \in Shapes(nn), fill \in Fills} :
           nn \in 0..MaxLoadN}

\* a square matrix over Weights is given by its cells above the diagonal
\* and, below and on it, either the mirror image with a zero diagonal or the
\* mirror image with every weight moved to the next one (an asymmetric
\* matrix with a non-zero diagonal).  The first MaxFree cells above the
\* diagonal, column by column, range over every weight (all of them up to
\* 4 nodes); the cells after them follow the "mod3" network.
Pairs(nn) == {p \in (0..(nn - 1)) \X (0..(nn - 1)) : p[1] < p[2]}

PairRank(p) == (p[2] * (p[2] - 1)) \div 2 + p[1]

FreePairs(nn) == {p \in Pairs(nn) : PairRank(p) < MaxFree}

Rot(w) == IF w = NegW THEN 0 ELSE IF w = 0 THEN PosW ELSE NegW

Modes == {"mirror", "rotated"}

Upper(u, p) ==
  IF p \in DOMAIN u THEN u[p] ELSE ParseOr0(SampleCell("mod3", p[1], p[2]))

MatrixOf(nn, u, mode) ==
  [i \in 1..nn |-> [j \in 1..nn |->
     IF i < j THEN Upper(u, <<i - 1, j - 1>>)
     ELSE LET base == IF i = j THEN 0 ELSE Upper(u, <<j - 1, i - 1>>)
          IN IF mode = "mirror" THEN base ELSE Rot(base)]]

CountsUpTo(k) ==
  [three_positive : 0..k, two_positive : 0..k, one_positive : 0..k, zero_positive : 0..k]

(* ------------------------------ actions -------------------------------- *)

NoMerge == [done |-> FALSE, ab |-> Default, ba |-> Default, ab_c |-> Default,
            a_bc |-> Default, a_z |-> Default, z_a |-> Default]

\* TriadCounterPlugin::new()
New ==
  /\ n = 0
  /\ adj = EmptyVec
  /\ signs = EmptyVec
  /\ labels = <<>>
  /\ counts = Default
  /\ lastOp = "new"
  /\ outcome = "ok"
  /\ ret = Default
  /\ prev = Default
  /\ clean = TRUE

MergeIdle ==
  /\ ma = Default
  /\ mb = Default
  /\ mc = Default
  /\ mres = NoMerge

Init == New /\ MergeIdle

Self == [n |-> n, adj |-> adj, signs |-> signs, labels |-> labels]

FromMatrix(matrix) ==
  LET e == from_matrix(matrix)
  IN /\ outcome # "panic"
     /\ n' = e.n
     /\ adj' = e.adj
     /\ signs' = e.signs
     /\ labels' = e.labels
     /\ counts' = e.counts
     /\ lastOp' = "from_matrix"
     /\ outcome' = IF e.ok THEN "ok" ELSE "panic"
     /\ ret' = Default
     /\ prev' = counts
     /\ clean' = TRUE
     /\ UNCHANGED mergeVars

Input(table) ==
  LET r == input(Self, table)
  IN /\ outcome # "panic"
     /\ n' = r.n
     /\ adj' = r.adj
     /\ signs' = r.signs
     /\ labels' = r.labels
     /\ counts' = counts
     /\ lastOp' = "input"
     /\ outcome' = r.status
     /\ ret' = Default
     /\ prev' = counts
     /\ clean' = IF r.status = "ok" THEN TRUE ELSE IF r.touched THEN FALSE ELSE clean
     /\ UNCHANGED mergeVars

\* the split tree only matters on the parallel path
Schedules(nn) == IF nn >= PARALLEL_THRESHOLD THEN Trees(nn) ELSE {<<>>}

RunStore_accumulating(old, new) == merge(old, new)

RunStore(old, new) == new

Run ==
  /\ outcome # "panic"
  /\ \E tree \in Schedules(n) :
       LET sg == IF VLen(signs) = 0 THEN compute_signs(adj) ELSE signs
           r == count_triads_optimized(sg, n, tree)
       IN /\ signs' = sg
          /\ counts' = IF r.ok THEN RunStore(counts, r.c) ELSE counts
          /\ outcome' = IF r.ok THEN "ok" ELSE "panic"
  /\ lastOp' = "run"
  /\ ret' = Default
  /\ prev' = counts
  /\ UNCHANGED <<n, adj, labels, clean>>
  /\ UNCHANGED mergeVars

Returned(op, r) ==
  /\ lastOp' = op
  /\ outcome' = IF r.ok THEN "ok" ELSE "panic"
  /\ ret' = r.c
  /\ prev' = counts
  /\ UNCHANGED <<engine, clean>>
  /\ UNCHANGED mergeVars

CallSequential ==
  /\ outcome # "panic"
  /\ Returned("count_triads_sequential", count_triads_sequential(signs, n))

CallParallelChunked ==
  /\ outcome # "panic"
  /\ \E r \in {count_triads_parallel_chunked(signs, n, tree) : tree \in Trees(n)} :
       Returned("count_triads_parallel_chunked", r)

CallOptimized ==
  /\ outcome # "panic"
  /\ \E tree \in Schedules(n) :
       Returned("count_triads_optimized", count_triads_optimized(signs, n, tree))

Next ==
  \/ \E matrix \in SampleMatrices : FromMatrix(matrix)
  \/ \E table \in SampleTables : Input(table)
  \/ Run
  \/ CallSequential
  \/ CallParallelChunked
  \/ CallOptimized

Spec == Init /\ [][Next]_vars

(* ------------- the counters on every bounded square matrix ------------- *)

InitCount ==
  /\ \E nn \in 0..MaxN : \E u \in [FreePairs(nn) -> Weights] : \E mode \in Modes :
       LET e == from_matrix(MatrixOf(nn, u, mode))
       IN /\ n = e.n
          /\ adj = e.adj
          /\ signs = e.signs
          /\ labels = e.labels
          /\ counts = e.counts
  /\ lastOp = "from_matrix"
  /\ outcome = "ok"
  /\ ret = Default
  /\ prev = Default
  /\ clean = TRUE
  /\ MergeIdle

NextCount ==
  \/ lastOp = "from_matrix" /\ Run
  \/ lastOp = "from_matrix" /\ CallSequential
  \/ lastOp = "from_matrix" /\ CallParallelChunked
  \/ lastOp = "from_matrix" /\ CallOptimized

SpecCount == InitCount /\ [][NextCount]_vars

(* ------------------------- merge on its own ---------------------------- *)

InitMerge ==
  /\ New
  /\ ma \in CountsUpTo(MaxCount)
  /\ mb \in CountsUpTo(MaxCount)
  /\ mc \in CountsUpTo(MaxCount)
  /\ mres = NoMerge

MergeAll ==
  /\ ~mres.done
  /\ mres' = [done |-> TRUE,
              ab |-> merge(ma, mb),
              ba |-> merge(mb, ma),
              ab_c |-> merge(merge(ma, mb), mc),
              a_bc |-> merge(ma, merge(mb, mc)),
              a_z |-> merge(ma, Default),
              z_a |-> merge(Default, ma)]
  /\ UNCHANGED <<engine, ghost, ma, mb, mc>>

NextMerge == MergeAll

SpecMerge == InitMerge /\ [][NextMerge]_vars

(* ------------------------ reference definitions ------------------------ *)

Triples(nn) ==
  {t \in (0..(nn - 1)) \X (0..(nn - 1)) \X (0..(nn - 1)) : t[1] < t[2] /\ t[2] < t[3]}

Edges(t) == {<<t[1], t[2]>>, <<t[1], t[3]>>, <<t[2], t[3]>>}

SignAt(sg, nn, p) == sg[p[1] * nn + p[2]]

IsTriad(sg, nn, t) == \A p \in Edges(t) : SignAt(sg, nn, p) # 0

Positives(sg, nn, t) == Cardinality({p \in Edges(t) : SignAt(sg, nn, p) > 0})

\* the triads among the triples T, by their number of positive edges
RefCounts(sg, nn, T) ==
  LET With(k) == Cardinality({t \in T : IsTriad(sg, nn, t) /\ Positives(sg, nn, t) = k})
  IN [three_positive |-> With(3), two_positive |-> With(2),
      one_positive |-> With(1), zero_positive |-> With(0)]

Containing(nn, a, b) == {t \in Triples(nn) : {a, b} \subseteq {t[1], t[2], t[3]}}

(* ------------------------------- claims -------------------------------- *)

\* C1: whatever the tree of splits of [0, n) into per-worker folds and whatever
\* the order of the reduce steps, count_triads_parallel_chunked returns the
\* four buckets count_triads_sequential returns on the same engine.
C1_ParallelEqualsSequential ==
  lastOp = "count_triads_parallel_chunked" =>
    /\ outcome = "ok"
    /\ ret = count_triads_sequential(signs, n).c

C1_Witness ==
  /\ lastOp = "count_triads_parallel_chunked"
  /\ n >= 4
  /\ total(ret) >= 4
  /\ ret.three_positive > 0
  /\ ret.one_positive > 0

\* C2: a load that returned normally leaves counts() all zero, also after an
\* earlier run.
C2_LoadZeroesCounts ==
  (lastOp \in {"input", "from_matrix"} /\ outcome = "ok") => counts = Default

\* C3 (as amended): the counted total is at most C(n,3); for n >= 3 it equals
\* C(n,3) exactly when every sign above the diagonal is non-zero.
C3_TotalBound ==
  lastOp = "run" =>
    /\ total(counts) <= count_triads(n)
    /\ n >= 3 =>
         (total(counts) = count_triads(n) <=> \A p \in Pairs(n) : SignAt(signs, n, p) # 0)

C3_Witness ==
  /\ lastOp = "run"
  /\ n >= 4
  /\ total(counts) = count_triads(n)
  /\ \E p \in Pairs(n) : signs[p[2] * n + p[1]] = 0

\* C3 (as claimed): the counted total is at most C(n,3), with equality exactly
\* when every off-diagonal sign is non-zero.
C3_Original ==
  lastOp = "run" =>
    /\ total(counts) <= count_triads(n)
    /\ total(counts) = count_triads(n) <=>
         \A i, j \in 0..(n - 1) : i # j => signs[i * n + j] # 0

\* C4: signs and adj both have n*n cells and the diagonal of signs is zero.
C4_SignShape ==
  outcome # "panic" =>
    /\ VLen(signs) = VLen(adj)
    /\ VLen(adj) = n * n
    /\ \A i \in 0..(n - 1) : InBounds(signs, i * n + i) /\ signs[i * n + i] = 0

\* C5 (as amended): a pair a < b whose cell above the diagonal is 0 removes every
\* triple containing a and b: the counts are those of the other triples.
C5_AbsentPair ==
  lastOp = "count_triads_sequential" =>
    \A p \in Pairs(n) :
      SignAt(signs, n, p) = 0 =>
        ret = RefCounts(signs, n, Triples(n) \ Containing(n, p[1], p[2]))

C5_Witness ==
  /\ lastOp = "count_triads_sequential"
  /\ n >= 4
  /\ total(ret) >= 2
  /\ \E p \in Pairs(n) : SignAt(signs, n, p) = 0

\* C5 (as claimed): a pair with a 0 in either of its two cells removes every
\* triple containing it.
C5_Original ==
  lastOp = "count_triads_sequential" =>
    \A a, b \in 0..(n - 1) :
      (a # b /\ (signs[a * n + b] = 0 \/ signs[b * n + a] = 0)) =>
        ret = RefCounts(signs, n, Triples(n) \ Containing(n, a, b))

\* C6: count_triads_sequential counts each triple i<j<k with three non-zero
\* signs once, in the bucket of its number of positive signs, and nothing else.
C6_SequentialIsReference ==
  lastOp = "count_triads_sequential" =>
    /\ outcome = "ok"
    /\ ret = RefCounts(signs, n, Triples(n))

C6_Witness ==
  /\ lastOp = "count_triads_sequential"
  /\ n >= 4
  /\ total(ret) < count_triads(n)
  /\ ret.two_positive = 1
  /\ ret.zero_positive = 1

\* C7: run and the three counters never panic.
C7_CountingNeverPanics ==
  lastOp \in {"run", "count_triads_sequential", "count_triads_parallel_chunked",
              "count_triads_optimized"} => outcome # "panic"

\* C8: input returns Ok or Err on every table and never panics.
C8_InputNeverPanics == lastOp = "input" => outcome \in {"ok", "err"}

\* C9: merge is commutative and associative and the all-zero value is its
\* identity on both sides.
C9_MergeMonoid ==
  mres.done =>
    /\ mres.ab = mres.ba
    /\ mres.ab_c = mres.a_bc
    /\ mres.a_z = ma
    /\ mres.z_a = ma

C9_Witness ==
  /\ mres.done
  /\ ma # mb
  /\ mc # Default
  /\ mres.ab \notin {ma, mb}
  /\ mres.ab_c # mres.ab

\* C10: after successful loads and runs, a run leaves in counts() exactly the
\* sequential count of the matrix loaded last, whatever counts() held before.
C10_RunReplaces ==
  (lastOp = "run" /\ clean) =>
    /\ outcome = "ok"
    /\ counts = count_triads_sequential(compute_signs(adj), n).c

C10_Witness ==
  /\ lastOp = "run"
  /\ clean
  /\ prev # Default
  /\ counts # Default
  /\ counts # prev

====
